---- MODULE Spec2Model ----
(***************************************************************************)
(* MELD CDS hook (cfu288/meld-cds-hook): the MeldScoreParams validator,    *)
(* calculate_meld_score and the meld_optn_hook request handler.            *)
(*                                                                         *)
(* Numbers are fixed point integers:                                       *)
(*   bilirubin, inr, creatinine : hundredths (1.2 mg/dL  = 120)            *)
(*   sodium, albumin            : tenths     (135 mEq/L  = 1350)           *)
(*   Ln(x)                      : natural log times 10^4                   *)
(*   the unrounded score        : score times 10^7 (ScoreScale)            *)
(* A datetime is <<year, month, day>>: every dob in the model is a date at *)
(* midnight, so comparing it with the clock is a comparison of days.       *)
(* An Optional is a sequence: <<>> is None, <<v>> holds v.                 *)
(***************************************************************************)
EXTENDS Integers, Sequences, FiniteSets, TLC

VARIABLES
    now,                \* the server clock read by datetime.now()/today()
    ticks,              \* how many times the clock has advanced
    pc,                 \* position of the caller / of the handler
    args,               \* keyword arguments of the last MeldScoreParams(...)
    params,             \* Optional MeldScoreParams object
    nulled,             \* attributes of params that were assigned None
    validation_errors,  \* messages of the ValidationError raised, if any
    response,           \* Optional result of calculate_meld_score
    age,                \* Optional local `age` of the last calculation
    meld_score_raw,     \* Optional local `meld_score` before round()
    request,            \* Optional HookRequest being handled
    results,            \* Optional outcome of asyncio.gather: six entries
    bilirubin_value, bilirubin_date,
    sodium_value, sodium_date,
    inr_value, inr_date,
    albumin_value, albumin_date,
    creatinine_value, creatinine_date,
    sex, dob,
    meld_score, meld_score_without_dialysis,
    calculation_success, calculation_errors,
    detail_markdown,    \* Optional card detail returned by the handler
    meld_params         \* Optional MeldParamsUnverified of fetch_meld_params

hookVars == <<request, results, bilirubin_value, bilirubin_date, sodium_value,
              sodium_date, inr_value, inr_date, albumin_value, albumin_date,
              creatinine_value, creatinine_date, sex, dob, meld_score,
              meld_score_without_dialysis, calculation_success,
              calculation_errors, detail_markdown>>

fetchVars == <<meld_params>>

callVars == <<args, params, nulled, validation_errors, response, age, meld_score_raw>>

\* ---------------------------------------------------------------- bounds
MaxTicks == 1

\* ------------------------------------------------------------- Optionals
None == <<>>
Some(v) == <<v>>
Get(o) == o[1]

\* ------------------------------------------------------------ the clock
StartDate == <<2024, 6, 14>>

IsLeap(y) == (y % 4 = 0 /\ y % 100 # 0) \/ y % 400 = 0

DaysInMonth(y, m) ==
    IF m = 2 THEN (IF IsLeap(y) THEN 29 ELSE 28)
    ELSE IF m \in {4, 6, 9, 11} THEN 30 ELSE 31

NextDay(d) ==
    IF d[3] < DaysInMonth(d[1], d[2]) THEN <<d[1], d[2], d[3] + 1>>
    ELSE IF d[2] < 12 THEN <<d[1], d[2] + 1, 1>>
    ELSE <<d[1] + 1, 1, 1>>

\* a > b on datetimes (tuple order year, month, day)
DateGT(a, b) ==
    \/ a[1] > b[1]
    \/ a[1] = b[1] /\ a[2] > b[2]
    \/ a[1] = b[1] /\ a[2] = b[2] /\ a[3] > b[3]

\* month and day compared separately instead of as a tuple
MonthDayLTEither(t, d) == t[2] < d[2] \/ t[3] < d[3]

\* (today.month, today.day) < (dob.month, dob.day)
MonthDayLT(t, d) == t[2] < d[2] \/ (t[2] = d[2] /\ t[3] < d[3])

\* today.year - dob.year - ((today.month, today.day) < (dob.month, dob.day))
Age(today, d) == today[1] - d[1] - (IF MonthDayLT(today, d) THEN 1 ELSE 0)

\* ------------------------------------------------------- str.lower()
Lower(s) ==
    CASE s = "FEMALE" -> "female"
      [] s = "Female" -> "female"
      [] s = "MALE"   -> "male"
      [] OTHER        -> s

\* ------------------------------------------------ MeldScoreParams validators
SexMsg         == "Value error, sex must be either \"male\" or \"female\""
BilirubinMsg   == "Value error, bilirubin must be between 0 and 99 mg/dL"
SodiumMsg      == "Value error, sodium must be between 100 and 200 mEq/L"
InrMsg         == "Value error, INR must be between 0.5 and 99"
AlbuminMsg     == "Value error, albumin must be between 0.5 and 9.9 g/dL"
CreatinineMsg  == "Value error, creatinine must be between 0.01 and 40 mg/dL"
DobMsg         == "Value error, dob must be less than or equal to the current date"
DobParseMsg    == "Input should be a valid datetime or date, input is too short"

validate_sex(v) ==
    IF Lower(v) \notin {"male", "female"} THEN <<SexMsg>> ELSE <<>>

\* zero taken for a missing value: the lower bound exclusive
validate_bilirubin_positive(v) ==
    IF ~(0 < v /\ v <= 9900) THEN <<BilirubinMsg>> ELSE <<>>

\* the upper bound taken exclusive
validate_bilirubin_exclusive(v) ==
    IF ~(0 <= v /\ v < 9900) THEN <<BilirubinMsg>> ELSE <<>>

validate_bilirubin(v) ==
    IF ~(0 <= v /\ v <= 9900) THEN <<BilirubinMsg>> ELSE <<>>

validate_sodium(v) ==
    IF ~(1000 <= v /\ v <= 2000) THEN <<SodiumMsg>> ELSE <<>>

validate_inr(v) ==
    IF ~(50 <= v /\ v <= 9900) THEN <<InrMsg>> ELSE <<>>

validate_albumin(v) ==
    IF ~(5 <= v /\ v <= 99) THEN <<AlbuminMsg>> ELSE <<>>

validate_creatinine(v) ==
    IF ~(1 <= v /\ v <= 4000) THEN <<CreatinineMsg>> ELSE <<>>

\* dob: the datetime parse of the field type, then the validator.
\* The empty string (the handler's default) does not parse.
validate_dob(v, clock) ==
    IF v = <<>> THEN <<DobParseMsg>>
    ELSE IF DateGT(v, clock) THEN <<DobMsg>> ELSE <<>>

\* construction that stops at the first failing field
MeldScoreParamsFirstError(a, clock) ==
    LET all == validate_sex(a.sex) \o validate_bilirubin(a.bilirubin)
                 \o validate_sodium(a.sodium) \o validate_inr(a.inr)
                 \o validate_albumin(a.albumin)
                 \o validate_creatinine(a.creatinine)
                 \o validate_dob(a.dob, clock)
    IN  IF all = <<>> THEN <<>> ELSE <<all[1]>>

\* pydantic runs every field's validator and collects the errors of all
\* failing fields in field declaration order.
MeldScoreParamsErrors(a, clock) ==
    validate_sex(a.sex) \o validate_bilirubin(a.bilirubin)
        \o validate_sodium(a.sodium) \o validate_inr(a.inr)
        \o validate_albumin(a.albumin) \o validate_creatinine(a.creatinine)
        \o validate_dob(a.dob, clock)

\* ------------------------------------------------------------ math.log
\* natural logarithm of x/100, times 10^4, on the working values of the model
Ln(x) ==
    CASE x = 100  -> 0
      [] x = 110  -> 953
      [] x = 120  -> 1823
      [] x = 150  -> 4055
      [] x = 250  -> 9163
      [] x = 270  -> 9933
      [] x = 280  -> 10296
      [] x = 300  -> 10986
      [] x = 400  -> 13863
      [] x = 4000 -> 36889
      [] x = 9900 -> 45951

ScoreScale == 100 * 10000 * 10

Max(a, b) == IF a >= b THEN a ELSE b
Min(a, b) == IF a <= b THEN a ELSE b

\* ------------------------------------------------- calculate_meld_score
\* bilirubin = max(params.bilirubin, 1.0)
WorkingBilirubin(p) == Max(p.bilirubin, 100)
\* inr = max(params.inr, 1.0)
WorkingInr(p) == Max(p.inr, 100)
\* the ceiling of 137 forgotten
WorkingSodiumNoCeiling(p) == Max(p.sodium, 1250)

\* sodium = min(max(params.sodium, 125), 137)
WorkingSodium(p) == Min(Max(p.sodium, 1250), 1370)
\* albumin = min(max(params.albumin, 1.5), 3.5)
WorkingAlbumin(p) == Min(Max(p.albumin, 15), 35)
\* the dialysis adjustment with `and` for `or`
WorkingCreatinineAnd(p) ==
    LET creatinine == Max(p.creatinine, 100)
    IN  IF creatinine > 300 /\ p.had_dialysis THEN 300 ELSE creatinine

\* creatinine = max(params.creatinine, 1.0), then the dialysis adjustment
WorkingCreatinine(p) ==
    LET creatinine == Max(p.creatinine, 100)
    IN  IF creatinine > 300 \/ p.had_dialysis THEN 300 ELSE creatinine

\* the sodium-bilirubin coefficient typed 2.4 for 0.24
MeldPolynomialCrossTerm(bilirubin, sodium, inr, albumin, creatinine) ==
      (456 * Ln(bilirubin)) * 10
    + (82 * (1370 - sodium)) * 10000
    - (240 * (1370 - sodium) * Ln(bilirubin))
    + (909 * Ln(inr)) * 10
    + (1114 * Ln(creatinine)) * 10
    + (185 * (35 - albumin)) * 10000
    - (183 * (35 - albumin) * Ln(creatinine))

\* the albumin term written (albumin - 3.5) for (3.5 - albumin)
MeldPolynomialAlbuminSign(bilirubin, sodium, inr, albumin, creatinine) ==
      (456 * Ln(bilirubin)) * 10
    + (82 * (1370 - sodium)) * 10000
    - (24 * (1370 - sodium) * Ln(bilirubin))
    + (909 * Ln(inr)) * 10
    + (1114 * Ln(creatinine)) * 10
    + (185 * (albumin - 35)) * 10000
    - (183 * (35 - albumin) * Ln(creatinine))

\* the eight terms common to both age bands, times ScoreScale
MeldPolynomial(bilirubin, sodium, inr, albumin, creatinine) ==
      (456 * Ln(bilirubin)) * 10
    + (82 * (1370 - sodium)) * 10000
    - (24 * (1370 - sodium) * Ln(bilirubin))
    + (909 * Ln(inr)) * 10
    + (1114 * Ln(creatinine)) * 10
    + (185 * (35 - albumin)) * 10000
    - (183 * (35 - albumin) * Ln(creatinine))

\* the sex compared without .lower()
MeldScoreRawCaseSensitive(p, a) ==
    LET poly == MeldPolynomial(WorkingBilirubin(p), WorkingSodium(p),
                               WorkingInr(p), WorkingAlbumin(p),
                               WorkingCreatinine(p))
    IN  IF 12 <= a /\ a < 18
        THEN poly + 733 * 100000
        ELSE (IF p.sex = "female" THEN 133 * 100000 ELSE 0)
             + poly + 6 * ScoreScale

\* the unrounded meld_score for a given age >= 12, times ScoreScale
MeldScoreRaw(p, a) ==
    LET poly == MeldPolynomial(WorkingBilirubin(p), WorkingSodium(p),
                               WorkingInr(p), WorkingAlbumin(p),
                               WorkingCreatinine(p))
    IN  IF 12 <= a /\ a < 18
        THEN poly + 733 * 100000
        ELSE (IF Lower(p.sex) = "female" THEN 133 * 100000 ELSE 0)
             + poly + 6 * ScoreScale

\* int() for round(): the fraction dropped
RoundDown(s) == s \div ScoreScale

\* round(): to the nearest integer, ties to the even one
Round(s) ==
    LET q == s \div ScoreScale
        r == s % ScoreScale
    IN  IF 2 * r < ScoreScale THEN q
        ELSE IF 2 * r > ScoreScale THEN q + 1
        ELSE IF q % 2 = 0 THEN q ELSE q + 1

\* the ceiling of 40 forgotten
ClampScoreNoCeiling(n) == Max(n, 6)

\* min(max(meld_score, 6), 40)
ClampScore(n) == Min(Max(n, 6), 40)

AgeMsg   == "Age must be 12 or older to calculate MELD score."
FaultMsg == "Error calculating MELD score: "

\* the gate off by one: `if age <= 12`
TooYoungOffByOne(a) == a <= 12

\* `if age < 12`
TooYoung(a) == a < 12

\* round, clamp: the value returned for a given age >= 12
ScoreForAge(p, a) == ClampScore(Round(MeldScoreRaw(p, a)))

\* the exception the try body raises, "" if none: params.dob is read for
\* the age, params.bilirubin for the clamps, params.sex in the adult band
BodyException(p, nul, today) ==
    IF "dob" \in nul THEN "AttributeError"
    ELSE IF TooYoung(Age(today, p.dob)) THEN ""
    ELSE IF "bilirubin" \in nul THEN "TypeError"
    ELSE IF "sex" \in nul /\ ~(Age(today, p.dob) < 18) THEN "AttributeError"
    ELSE ""

\* only `except ValidationError`: every other exception leaves the function
CaughtValidationOnly(exception) == exception = "ValidationError"

\* `except ValidationError` followed by `except Exception`
Caught(exception) == exception = "ValidationError" \/ exception # ""

\* the except handler that records no message
ExceptErrorsDropped(e) == <<>>

\* `response.errors.append(f"Error calculating MELD score: {e}")`
ExceptErrors(e) == <<FaultMsg>>

\* the whole function: `raised` names the exception that leaves it, if any
calculate_meld_score(p, nul, today) ==
    LET e == BodyException(p, nul, today)
    IN  IF e # ""
        THEN IF Caught(e)
             THEN [raised |-> "", value |-> None, errors |-> ExceptErrors(e),
                   success |-> FALSE]
             ELSE [raised |-> e, value |-> None, errors |-> <<>>,
                   success |-> FALSE]
        ELSE IF TooYoung(Age(today, p.dob))
        THEN [raised |-> "", value |-> None, errors |-> <<AgeMsg>>,
              success |-> FALSE]
        ELSE [raised |-> "", value |-> Some(ScoreForAge(p, Age(today, p.dob))),
              errors |-> <<>>, success |-> TRUE]

\* ------------------------------------------------------------ the inputs
Adult == <<1990, 1, 1>>
Child == <<2015, 1, 1>>
Turns12 == <<2012, 6, 15>>
Turns18 == <<2006, 6, 15>>
BornTomorrow == <<2024, 6, 15>>
FarFuture == <<3000, 1, 1>>
Teen == <<2009, 1, 1>>
BirthdayNextMonth == <<2012, 7, 1>>
BirthdayLastMonth == <<2012, 5, 20>>

\* probes of every validation bound: just outside and exactly on it
BoundaryArgs ==
    [sex : {"male", "FEMALE", "unknown"},
     bilirubin : {-1, 0, 9900, 9901},
     sodium : {999, 1000, 2000, 2001},
     inr : {49, 50, 9900, 9901},
     albumin : {4, 5, 99, 100},
     creatinine : {0, 1, 4000, 4001},
     had_dialysis : {FALSE},
     dob : {Adult, BornTomorrow, FarFuture}]

\* valid clinical values on both sides of every clamp
ClinicalArgs ==
    [sex : {"male", "female", "Female"},
     bilirubin : {0, 100, 120, 400},
     sodium : {1240, 1250, 1350, 1370, 1380},
     inr : {50, 110, 250},
     albumin : {14, 15, 30, 35, 36},
     creatinine : {1, 150, 270, 280, 300, 400},
     had_dialysis : BOOLEAN,
     dob : {Adult, Child, Turns12, Turns18}]

\* the input of the tests, with every lab also at the 0 the handler uses
\* for a value that was not found
SentinelArgs ==
    [sex : {"male"},
     bilirubin : {0, 120},
     sodium : {0, 1350},
     inr : {0, 110},
     albumin : {0, 30},
     creatinine : {0, 150},
     had_dialysis : {FALSE},
     dob : {Adult, Teen, BirthdayNextMonth, BirthdayLastMonth}]

Args == BoundaryArgs \cup ClinicalArgs \cup SentinelArgs

\* ------------------------------------------------------ meld_optn_hook
ObsDate == "2024-06-01"

\* an entry of `results` is None for an Exception, else Some of the tuple
LabOutcomes(values) == {None} \cup {Some(<<v, ObsDate>>) : v \in values}

PatientOutcomes ==
    {None} \cup {Some(t) : t \in {<<"male", Adult>>, <<"female", Turns18>>,
                                   <<"unknown", Adult>>, <<"male", Child>>,
                                   <<"female", Turns12>>,
                                   <<"male", BornTomorrow>>}}

GatherOutcomes ==
    {<<b, s, i, a, c, p>> :
        b \in LabOutcomes({120, 10000}), s \in LabOutcomes({1350, 990}),
        i \in LabOutcomes({110}), a \in LabOutcomes({30}),
        c \in LabOutcomes({150, 400}), p \in PatientOutcomes}

Requests == [fhirServer : BOOLEAN, patientId : BOOLEAN, fhirAuthorization : BOOLEAN]

\* "set default values"
HookDefaults ==
    /\ bilirubin_value = 0 /\ bilirubin_date = ""
    /\ sodium_value = 0 /\ sodium_date = ""
    /\ inr_value = 0 /\ inr_date = ""
    /\ albumin_value = 0 /\ albumin_date = ""
    /\ creatinine_value = 0 /\ creatinine_date = ""
    /\ sex = ""
    /\ dob = <<>>
    /\ meld_score = None
    /\ meld_score_without_dialysis = None
    /\ calculation_success = FALSE
    /\ calculation_errors = <<>>
    /\ detail_markdown = None

\* value, date = results[i] when results[i] is no Exception, else the default
LabValue(r) == IF r # None THEN Get(r)[1] ELSE 0
LabDate(r) == IF r # None THEN Get(r)[2] ELSE ""

\* `if not isinstance(results[4], Exception): sex, dob = results[5]`; the
\* unpacking of an Exception raises TypeError, which the except clause
\* around the block swallows
PatientAssigned(r) == r[5] # None /\ r[6] # None

\* the keyword arguments of MeldScoreParams(...) in the handler
HookArgs(dialysis) ==
    [sex |-> sex, bilirubin |-> bilirubin_value, sodium |-> sodium_value,
     inr |-> inr_value, albumin |-> albumin_value,
     creatinine |-> creatinine_value, had_dialysis |-> dialysis, dob |-> dob]

TableCell(value, date) ==
    IF value # 0 THEN <<value, date>> ELSE <<"Not found", "">>

\* the score line rendered whatever calculation_success says
generate_detail_markdown_always(success, score, score_without, errors) ==
    [markdown_score_string |->
        <<"Score with dialysis: **", score, "**; w/o dialysis: **",
          score_without, "**">>,
     markdown_error_list |-> errors,
     table |-> <<TableCell(bilirubin_value, bilirubin_date),
                 TableCell(sodium_value, sodium_date),
                 TableCell(inr_value, inr_date),
                 TableCell(albumin_value, albumin_date),
                 TableCell(creatinine_value, creatinine_date),
                 <<sex>>, <<dob>>>>]

generate_detail_markdown(success, score, score_without, errors) ==
    [markdown_score_string |->
        IF success
        THEN <<"Score with dialysis: **", score, "**; w/o dialysis: **",
               score_without, "**">>
        ELSE <<"Score: Not calculated.">>,
     markdown_error_list |-> errors,
     table |-> <<TableCell(bilirubin_value, bilirubin_date),
                 TableCell(sodium_value, sodium_date),
                 TableCell(inr_value, inr_date),
                 TableCell(albumin_value, albumin_date),
                 TableCell(creatinine_value, creatinine_date),
                 <<sex>>, <<dob>>>>]

\* request.fhirAuthorization.get(...) on a FhirAuthorization model: the
\* attribute does not exist and the handler raises before any default is set
HookRaise ==
    /\ pc = "idle"
    /\ \E r \in Requests :
        /\ r.fhirAuthorization
        /\ request' = Some(r)
    /\ pc' = "hook_raised"
    /\ UNCHANGED <<fetchVars, now, ticks, callVars, results, bilirubin_value,
                   bilirubin_date, sodium_value, sodium_date, inr_value,
                   inr_date, albumin_value, albumin_date, creatinine_value,
                   creatinine_date, sex, dob, meld_score,
                   meld_score_without_dialysis, calculation_success,
                   calculation_errors, detail_markdown>>

\* the defaults, the six concurrent fetches and the unpacking of `results`
HookFetch ==
    /\ pc = "idle"
    /\ \E r \in Requests :
        /\ ~r.fhirAuthorization
        /\ request' = Some(r)
        /\ IF r.fhirServer /\ r.patientId
           THEN \E g \in GatherOutcomes :
                /\ results' = Some(g)
                /\ bilirubin_value' = LabValue(g[1])
                /\ bilirubin_date' = LabDate(g[1])
                /\ sodium_value' = LabValue(g[2])
                /\ sodium_date' = LabDate(g[2])
                /\ inr_value' = LabValue(g[3])
                /\ inr_date' = LabDate(g[3])
                /\ albumin_value' = LabValue(g[4])
                /\ albumin_date' = LabDate(g[4])
                /\ creatinine_value' = LabValue(g[5])
                /\ creatinine_date' = LabDate(g[5])
                /\ sex' = IF PatientAssigned(g) THEN Get(g[6])[1] ELSE ""
                /\ dob' = IF PatientAssigned(g) THEN Get(g[6])[2] ELSE <<>>
           ELSE /\ results' = None
                /\ UNCHANGED <<bilirubin_value, bilirubin_date, sodium_value,
                               sodium_date, inr_value, inr_date, albumin_value,
                               albumin_date, creatinine_value, creatinine_date,
                               sex, dob>>
    /\ pc' = "hook_fetched"
    /\ UNCHANGED <<fetchVars, now, ticks, callVars, meld_score,
                   meld_score_without_dialysis, calculation_success,
                   calculation_errors, detail_markdown>>

\* the first MeldScoreParams(..., had_dialysis=True) and its calculation
HookScoreWithDialysis ==
    /\ pc = "hook_fetched"
    /\ LET a == HookArgs(TRUE)
           errs == MeldScoreParamsErrors(a, now)
           r == calculate_meld_score(a, {}, now)
       IN  IF errs # <<>>
           THEN /\ calculation_errors' = errs
                /\ pc' = "hook_scored"
                /\ UNCHANGED <<calculation_success, meld_score>>
           ELSE /\ calculation_success' = r.success
                /\ meld_score' = IF r.success THEN r.value ELSE meld_score
                /\ calculation_errors' =
                     IF r.success THEN calculation_errors ELSE r.errors
                /\ pc' = IF r.success THEN "hook_second" ELSE "hook_scored"
    /\ UNCHANGED <<fetchVars, now, ticks, callVars, request, results, bilirubin_value,
                   bilirubin_date, sodium_value, sodium_date, inr_value,
                   inr_date, albumin_value, albumin_date, creatinine_value,
                   creatinine_date, sex, dob, meld_score_without_dialysis,
                   detail_markdown>>

\* the second MeldScoreParams(..., had_dialysis=False) and its calculation
HookScoreWithoutDialysis ==
    /\ pc = "hook_second"
    /\ LET a == HookArgs(FALSE)
           errs == MeldScoreParamsErrors(a, now)
       IN  IF errs # <<>>
           THEN /\ calculation_errors' = errs
                /\ UNCHANGED meld_score_without_dialysis
           ELSE /\ meld_score_without_dialysis' =
                     calculate_meld_score(a, {}, now).value
                /\ UNCHANGED calculation_errors
    /\ pc' = "hook_scored"
    /\ UNCHANGED <<fetchVars, now, ticks, callVars, request, results, bilirubin_value,
                   bilirubin_date, sodium_value, sodium_date, inr_value,
                   inr_date, albumin_value, albumin_date, creatinine_value,
                   creatinine_date, sex, dob, meld_score, calculation_success,
                   detail_markdown>>

\* generate_detail_markdown(...) and the card
HookRender ==
    /\ pc = "hook_scored"
    /\ detail_markdown' =
         Some(generate_detail_markdown(calculation_success, meld_score,
                                       meld_score_without_dialysis,
                                       calculation_errors))
    /\ pc' = "hook_rendered"
    /\ UNCHANGED <<fetchVars, now, ticks, callVars, request, results, bilirubin_value,
                   bilirubin_date, sodium_value, sodium_date, inr_value,
                   inr_date, albumin_value, albumin_date, creatinine_value,
                   creatinine_date, sex, dob, meld_score,
                   meld_score_without_dialysis, calculation_success,
                   calculation_errors>>

\* the request is over: its locals are gone
HookReturn ==
    /\ pc \in {"hook_rendered", "hook_raised"}
    /\ pc' = "idle"
    /\ request' = None
    /\ results' = None
    /\ bilirubin_value' = 0 /\ bilirubin_date' = ""
    /\ sodium_value' = 0 /\ sodium_date' = ""
    /\ inr_value' = 0 /\ inr_date' = ""
    /\ albumin_value' = 0 /\ albumin_date' = ""
    /\ creatinine_value' = 0 /\ creatinine_date' = ""
    /\ sex' = ""
    /\ dob' = <<>>
    /\ meld_score' = None
    /\ meld_score_without_dialysis' = None
    /\ calculation_success' = FALSE
    /\ calculation_errors' = <<>>
    /\ detail_markdown' = None
    /\ UNCHANGED <<fetchVars, now, ticks, callVars>>

\* ------------------------------------------------------------- actions
Init ==
    /\ now = StartDate
    /\ ticks = 0
    /\ pc = "idle"
    /\ args = None
    /\ params = None
    /\ nulled = {}
    /\ validation_errors = <<>>
    /\ response = None
    /\ age = None
    /\ meld_score_raw = None
    /\ request = None
    /\ results = None
    /\ HookDefaults
    /\ meld_params = None

\* midnight passes
Tick ==
    /\ ticks < MaxTicks
    /\ now' = NextDay(now)
    /\ ticks' = ticks + 1
    /\ UNCHANGED <<pc, callVars, hookVars, fetchVars>>

\* MeldScoreParams(**a): the object exists only if no field fails
Construct ==
    /\ pc = "idle"
    /\ \E a \in Args :
        LET errs == MeldScoreParamsErrors(a, now)
        IN  /\ args' = Some(a)
            /\ validation_errors' = errs
            /\ params' = IF errs = <<>> THEN Some(a) ELSE None
            /\ pc' = IF errs = <<>> THEN "constructed" ELSE "rejected"
    /\ UNCHANGED <<fetchVars, now, ticks, nulled, response, age, meld_score_raw, hookVars>>

\* params.<field> = None: the model class does not validate assignments
AssignNone ==
    /\ pc = "constructed"
    /\ nulled = {}
    /\ Get(params) = [Get(params) EXCEPT !.bilirubin = 120, !.sodium = 1350,
                                         !.inr = 110, !.albumin = 30,
                                         !.creatinine = 150, !.had_dialysis = FALSE]
    /\ \E f \in {"dob", "sex", "bilirubin"} : nulled' = {f}
    /\ UNCHANGED <<fetchVars, now, ticks, pc, args, params, validation_errors, response,
                   age, meld_score_raw, hookVars>>

\* calculate_meld_score(params)
Calculate ==
    /\ pc = "constructed"
    /\ LET p == Get(params)
           r == calculate_meld_score(p, nulled, now)
       IN  /\ response' = IF r.raised = "" THEN Some(r) ELSE None
           /\ pc' = IF r.raised = "" THEN "calculated" ELSE "call_raised"
           /\ age' = IF "dob" \in nulled THEN None ELSE Some(Age(now, p.dob))
           /\ meld_score_raw' =
                IF r.success THEN Some(MeldScoreRaw(p, Age(now, p.dob)))
                ELSE None
    /\ UNCHANGED <<fetchVars, now, ticks, args, params, nulled, validation_errors, hookVars>>

\* the caller drops the objects
Return ==
    /\ pc \in {"rejected", "calculated", "call_raised"}
    /\ pc' = "idle"
    /\ args' = None
    /\ params' = None
    /\ nulled' = {}
    /\ validation_errors' = <<>>
    /\ response' = None
    /\ age' = None
    /\ meld_score_raw' = None
    /\ UNCHANGED <<fetchVars, now, ticks, hookVars>>

\* ---------------------------------------------------- fetch_meld_params
\* MeldParamsUnverified() with the fields of the fetches that succeeded
MeldParamsUnverified(g) ==
    [bilirubin_value |-> LabValue(g[1]), bilirubin_date |-> LabDate(g[1]),
     sodium_value |-> LabValue(g[2]), sodium_date |-> LabDate(g[2]),
     inr_value |-> LabValue(g[3]), inr_date |-> LabDate(g[3]),
     albumin_value |-> LabValue(g[4]), albumin_date |-> LabDate(g[4]),
     creatinine_value |-> LabValue(g[5]), creatinine_date |-> LabDate(g[5]),
     sex |-> IF g[6] # None THEN Get(g[6])[1] ELSE "",
     dob |-> IF g[6] # None THEN Get(g[6])[2] ELSE <<>>]

\* fetch_meld_params(fhir_server, patient_id, bearer)
FetchMeldParams ==
    /\ pc = "idle"
    /\ \E g \in GatherOutcomes :
        /\ results' = Some(g)
        /\ meld_params' = Some(MeldParamsUnverified(g))
    /\ pc' = "params_fetched"
    /\ UNCHANGED <<now, ticks, callVars, request, bilirubin_value,
                   bilirubin_date, sodium_value, sodium_date, inr_value,
                   inr_date, albumin_value, albumin_date, creatinine_value,
                   creatinine_date, sex, dob, meld_score,
                   meld_score_without_dialysis, calculation_success,
                   calculation_errors, detail_markdown>>

\* the caller of fetch_meld_params drops the object
FetchReturn ==
    /\ pc = "params_fetched"
    /\ pc' = "idle"
    /\ results' = None
    /\ meld_params' = None
    /\ UNCHANGED <<now, ticks, callVars, request, bilirubin_value,
                   bilirubin_date, sodium_value, sodium_date, inr_value,
                   inr_date, albumin_value, albumin_date, creatinine_value,
                   creatinine_date, sex, dob, meld_score,
                   meld_score_without_dialysis, calculation_success,
                   calculation_errors, detail_markdown>>

vars == <<now, ticks, pc, callVars, hookVars, fetchVars>>

Next ==
    \/ Tick
    \/ Construct
    \/ AssignNone
    \/ Calculate
    \/ Return
    \/ HookRaise
    \/ HookFetch
    \/ HookScoreWithDialysis
    \/ HookScoreWithoutDialysis
    \/ HookRender
    \/ HookReturn
    \/ FetchMeldParams
    \/ FetchReturn

Spec == Init /\ [][Next]_vars

\* ------------------------------------------------------------ the claims
\* a calculation of a validated, untouched MeldScoreParams has returned
ValidatedCallDone == pc = "calculated" /\ nulled = {}

\* C1 as stated: for every input accepted by the validator,
\* calculate_meld_score returns success=true with 6 <= value <= 40.
C1_AllValidInputsScore ==
    ValidatedCallDone =>
        /\ Get(response).success
        /\ Get(response).value # None
        /\ 6 <= Get(Get(response).value) /\ Get(Get(response).value) <= 40

\* C1 amended: for every input accepted by the validator whose age at the
\* time of the calculation is at least 12, calculate_meld_score returns
\* success=true with 6 <= value <= 40.
C1_ValidInputsOfAge12Score ==
    (ValidatedCallDone /\ Get(age) >= 12) =>
        /\ Get(response).success
        /\ Get(response).value # None
        /\ 6 <= Get(Get(response).value) /\ Get(Get(response).value) <= 40

C1_Witness ==
    /\ ValidatedCallDone /\ Get(age) >= 12
    /\ Get(meld_score_raw) > 40 * ScoreScale
    /\ Get(response).value = Some(40)

\* C2: every result of calculate_meld_score has a consistent shape: success
\* comes with an integer value in [6, 40] and no errors, failure comes with
\* no value and at least one error message.
C2_ResultShape ==
    pc = "calculated" =>
        LET r == Get(response)
        IN  /\ r.success =>
                 /\ r.value # None /\ Get(r.value) \in 6..40
                 /\ r.errors = <<>>
            /\ ~r.success => (r.value = None /\ Len(r.errors) >= 1)

C2_Witness ==
    /\ pc = "calculated" /\ nulled = {"sex"}
    /\ ~Get(response).success /\ Len(Get(response).errors) = 1

\* C3: a validated input of age below 12 gets success=false, no value and
\* exactly the one age message; an input of age 12 or more never gets it.
C3_AgeGate ==
    ValidatedCallDone =>
        LET r == Get(response)
            msg == "Age must be 12 or older to calculate MELD score."
        IN  /\ Get(age) < 12 =>
                 (~r.success /\ r.value = None /\ r.errors = <<msg>>)
            /\ Get(age) >= 12 => \A i \in 1..Len(r.errors) : r.errors[i] # msg

C3_Witness ==
    /\ ValidatedCallDone /\ Get(age) = 11
    /\ Get(response).errors = <<AgeMsg>>

\* the constraints of C4 on the constructor arguments, every bound inclusive
C4_Accepted(a, clock) ==
    /\ a.sex \in {"male", "female", "MALE", "FEMALE", "Female"}
    /\ 0 <= a.bilirubin /\ a.bilirubin <= 9900
    /\ 1000 <= a.sodium /\ a.sodium <= 2000
    /\ 50 <= a.inr /\ a.inr <= 9900
    /\ 5 <= a.albumin /\ a.albumin <= 99
    /\ 1 <= a.creatinine /\ a.creatinine <= 4000
    /\ a.dob # <<>> /\ ~DateGT(a.dob, clock)

\* C4: constructing MeldScoreParams succeeds if and only if sex is male or
\* female in any letter case, every lab value is within its inclusive range
\* and dob is not later than the clock; the object then holds the values as
\* given, and otherwise no object exists.
C4_ConstructionIffInRange ==
    [][(pc = "idle" /\ pc' \in {"constructed", "rejected"}) =>
        /\ (params' # None) <=> C4_Accepted(Get(args'), now)
        /\ (pc' = "constructed") <=> (params' # None)
        /\ params' # None => params' = args']_vars

C4_Witness ==
    /\ pc = "constructed"
    /\ Get(params) = [sex |-> "FEMALE", bilirubin |-> 0, sodium |-> 2000,
                      inr |-> 50, albumin |-> 99, creatinine |-> 1,
                      had_dialysis |-> FALSE, dob |-> now]

\* the fields in the order of C5, and what violates each
C5_Fields == <<"sex", "bilirubin", "sodium", "inr", "albumin", "creatinine", "dob">>

C5_Violated(f, a, clock) ==
    CASE f = "sex"        -> a.sex \notin {"male", "female", "MALE", "FEMALE", "Female"}
      [] f = "bilirubin"  -> a.bilirubin < 0 \/ a.bilirubin > 9900
      [] f = "sodium"     -> a.sodium < 1000 \/ a.sodium > 2000
      [] f = "inr"        -> a.inr < 50 \/ a.inr > 9900
      [] f = "albumin"    -> a.albumin < 5 \/ a.albumin > 99
      [] f = "creatinine" -> a.creatinine < 1 \/ a.creatinine > 4000
      [] f = "dob"        -> a.dob = <<>> \/ DateGT(a.dob, clock)

C5_Message(f, a) ==
    CASE f = "sex"        -> SexMsg
      [] f = "bilirubin"  -> BilirubinMsg
      [] f = "sodium"     -> SodiumMsg
      [] f = "inr"        -> InrMsg
      [] f = "albumin"    -> AlbuminMsg
      [] f = "creatinine" -> CreatinineMsg
      [] f = "dob"        -> IF a.dob = <<>> THEN DobParseMsg ELSE DobMsg

\* one message per violated field, in the order of C5_Fields
C5_AllMessages(a, clock) ==
    LET Bad(f) == C5_Violated(f, a, clock)
        bad == SelectSeq(C5_Fields, Bad)
    IN  [i \in 1..Len(bad) |-> C5_Message(bad[i], a)]

\* C5 as stated: when several fields violate their constraints only the
\* error of the first violated field is surfaced, by the construction and
\* in the calculation_errors of the handler.
C5_OnlyFirstError ==
    /\ pc = "rejected" => Len(validation_errors) = 1
    /\ pc \in {"hook_scored", "hook_rendered"} => Len(calculation_errors) <= 1

\* C5 amended: validation surfaces the error of every violated field, once
\* each, in the order sex, bilirubin, sodium, inr, albumin, creatinine, dob
\* (so the first one listed is that of the first violated field), both in
\* the ValidationError of the construction and in the calculation_errors
\* the handler renders.
C5_EveryErrorInFieldOrder ==
    [][/\ (pc = "idle" /\ pc' = "rejected") =>
            validation_errors' = C5_AllMessages(Get(args'), now)
       /\ (pc = "hook_fetched" /\ pc' # "hook_fetched"
             /\ C5_AllMessages(HookArgs(TRUE), now) # <<>>) =>
            calculation_errors' = C5_AllMessages(HookArgs(TRUE), now)]_vars

C5_Witness ==
    /\ pc = "hook_rendered"
    /\ results # None
    /\ Len(calculation_errors) >= 2
    /\ Get(detail_markdown).markdown_error_list = calculation_errors

\* C6: in the handler, when the construction of MeldScoreParams fails the
\* calculation is not entered: both scores stay None, calculation_success
\* stays False, calculation_errors is not empty and the card says
\* "Score: Not calculated."; no card shows one score without the other.
C6_NoPartialScore ==
    /\ [][(pc = "hook_fetched" /\ pc' # "hook_fetched"
            /\ MeldScoreParamsErrors(HookArgs(TRUE), now) # <<>>) =>
            /\ pc' = "hook_scored"
            /\ meld_score' = None /\ meld_score_without_dialysis' = None
            /\ calculation_success' = FALSE
            /\ calculation_errors' # <<>>]_vars
    /\ [](pc = "hook_rendered" =>
            LET line == Get(detail_markdown).markdown_score_string
            IN  /\ ~calculation_success =>
                    /\ line = <<"Score: Not calculated.">>
                    /\ meld_score = None /\ meld_score_without_dialysis = None
                    /\ calculation_errors # <<>>
                /\ calculation_success =>
                    /\ meld_score # None /\ meld_score_without_dialysis # None
                    /\ line = <<"Score with dialysis: **", meld_score,
                                "**; w/o dialysis: **",
                                meld_score_without_dialysis, "**">>)

C6_Witness ==
    /\ pc = "hook_rendered"
    /\ results # None /\ Get(results)[6] # None
    /\ ~calculation_success
    /\ Get(detail_markdown).markdown_score_string = <<"Score: Not calculated.">>
    /\ calculation_errors \in {<<SodiumMsg>>, <<DobMsg>>}

\* C7: calculate_meld_score never raises to its caller: every call returns
\* a result, and a fault inside the computation is reported as
\* success=false with one generic calculation-error entry.
C7_NeverRaises ==
    /\ pc # "call_raised"
    /\ pc = "calculated" =>
         /\ response # None
         /\ (nulled = {"dob"} \/ (nulled # {} /\ Get(age) >= 18)) =>
              /\ ~Get(response).success
              /\ Get(response).errors = <<"Error calculating MELD score: ">>

C7_Witness ==
    /\ pc = "calculated" /\ nulled = {"bilirubin"} /\ Get(age) = 12
    /\ Get(response).errors = <<FaultMsg>>

\* the score before rounding that the model computes for p at the age of
\* the call in the state
C_RawAt(p) == MeldScoreRaw(p, Get(age))

\* a validated call of age 12 or more has returned its score
C_Scored == ValidatedCallDone /\ Get(response).success

\* C8: of two validated inputs of age >= 12 that differ only in had_dialysis
\* and have raw creatinine <= 3.0, the had_dialysis=true one computes with
\* creatinine 3.0 and its value is not below the other's; the handler's
\* score with dialysis is never below its score without.
C8_DialysisNotLower ==
    /\ (C_Scored /\ Get(params).had_dialysis /\ Get(params).creatinine <= 300) =>
         LET p == Get(params)
         IN  /\ Get(meld_score_raw) =
                  C_RawAt([p EXCEPT !.had_dialysis = FALSE, !.creatinine = 300])
             /\ Get(Get(response).value) >=
                  ScoreForAge([p EXCEPT !.had_dialysis = FALSE], Get(age))
    /\ (pc = "hook_rendered" /\ calculation_success) =>
         Get(meld_score) >= Get(meld_score_without_dialysis)

C8_Witness ==
    /\ C_Scored /\ Get(params).had_dialysis /\ Get(params).creatinine = 150
    /\ Get(Get(response).value) >
         ScoreForAge([Get(params) EXCEPT !.had_dialysis = FALSE], Get(age))

C8_WitnessHook ==
    /\ pc = "hook_rendered" /\ calculation_success
    /\ Get(meld_score) > Get(meld_score_without_dialysis)

\* valid values of each lab, on both sides of every clamp
C_Bilirubins == {0, 100, 120, 400, 9900}
C_Inrs == {50, 110, 250, 9900}
C_Creatinines == {1, 150, 270, 280, 300, 400, 4000}
C_Albumins == {5, 14, 15, 30, 35, 36, 99}

\* C9: with every other input fixed, a higher bilirubin, a higher INR or a
\* higher creatinine never gives a lower score before rounding, in the
\* 12-17 band and in the 18+ band.
C9_MonotoneInBilirubinInrCreatinine ==
    C_Scored =>
        LET p == Get(params)
        IN  /\ \A b \in C_Bilirubins : b >= p.bilirubin =>
                 C_RawAt([p EXCEPT !.bilirubin = b]) >= Get(meld_score_raw)
            /\ \A i \in C_Inrs : i >= p.inr =>
                 C_RawAt([p EXCEPT !.inr = i]) >= Get(meld_score_raw)
            /\ \A c \in C_Creatinines : c >= p.creatinine =>
                 C_RawAt([p EXCEPT !.creatinine = c]) >= Get(meld_score_raw)

C9_Witness ==
    /\ C_Scored /\ Get(age) \in 12..17
    /\ Get(params).sodium = 1250 /\ Get(params).bilirubin = 120
    /\ C_RawAt([Get(params) EXCEPT !.bilirubin = 400]) > Get(meld_score_raw)

\* C10 as stated: with every other input fixed, for every valid creatinine
\* and either had_dialysis, a higher albumin never gives a higher score
\* before rounding.
C10_AlbuminNeverIncreases ==
    C_Scored =>
        \A a \in C_Albumins : a >= Get(params).albumin =>
            C_RawAt([Get(params) EXCEPT !.albumin = a]) <= Get(meld_score_raw)

\* C10 amended: with every other input fixed, a higher albumin never gives
\* a higher score before rounding while the working creatinine is at most
\* 2.7 (had_dialysis false and creatinine <= 2.7); when the working
\* creatinine is 2.8 or more (creatinine >= 2.8, or had_dialysis true, where
\* it is 3.0) a higher albumin never gives a lower score.
C10_AlbuminByWorkingCreatinine ==
    C_Scored =>
        LET p == Get(params)
            low == ~p.had_dialysis /\ p.creatinine <= 270
            high == p.had_dialysis \/ p.creatinine >= 280
        IN  \A a \in C_Albumins : a >= p.albumin =>
              /\ low => C_RawAt([p EXCEPT !.albumin = a]) <= Get(meld_score_raw)
              /\ high => C_RawAt([p EXCEPT !.albumin = a]) >= Get(meld_score_raw)

C10_Witness ==
    /\ C_Scored /\ ~Get(params).had_dialysis /\ Get(params).creatinine = 270
    /\ Get(params).albumin = 15
    /\ C_RawAt([Get(params) EXCEPT !.albumin = 35]) < Get(meld_score_raw)

\* the input of test_calculate_meld_score, dob aside
C11_Reference(p) ==
    /\ p.sex = "male" /\ p.bilirubin = 120 /\ p.sodium = 1350 /\ p.inr = 110
    /\ p.albumin = 30 /\ p.creatinine = 150 /\ ~p.had_dialysis

C_Has(msgs, m) == \E i \in 1..Len(msgs) : msgs[i] = m

\* the messages C12 expects for labs left at 0
C12_ZeroRejected(a, msgs) ==
    /\ a.sodium = 0 => C_Has(msgs, SodiumMsg)
    /\ a.inr = 0 => C_Has(msgs, InrMsg)
    /\ a.albumin = 0 => C_Has(msgs, AlbuminMsg)
    /\ a.creatinine = 0 => C_Has(msgs, CreatinineMsg)

C12_AnyZero(a) == a.sodium = 0 \/ a.inr = 0 \/ a.albumin = 0 \/ a.creatinine = 0

\* C12: a lab left at the 0 of "not found" is an ordinary number: 0 in
\* sodium, INR, albumin or creatinine is rejected by validation and no
\* score is produced; 0 in bilirubin passes validation and is floored to
\* 1.0, so the result is that of the same input with bilirubin 1.0.
C12_ZeroIsOrdinary ==
    /\ (pc \in {"constructed", "rejected", "calculated"} /\ C12_AnyZero(Get(args))) =>
         /\ pc = "rejected" /\ params = None /\ response = None
         /\ C12_ZeroRejected(Get(args), validation_errors)
    /\ (pc = "rejected" /\ Get(args).bilirubin = 0) =>
         ~C_Has(validation_errors, BilirubinMsg)
    /\ (ValidatedCallDone /\ Get(params).bilirubin = 0) =>
         LET r == Get(response)
             one == [Get(params) EXCEPT !.bilirubin = 100]
         IN  IF r.success
             THEN /\ r.value = Some(ScoreForAge(one, Get(age)))
                  /\ Get(meld_score_raw) = C_RawAt(one)
             ELSE Get(age) < 12 /\ r.errors = <<AgeMsg>>
    /\ (pc \in {"hook_scored", "hook_rendered"} /\ C12_AnyZero(HookArgs(TRUE))) =>
         /\ ~calculation_success
         /\ meld_score = None /\ meld_score_without_dialysis = None
         /\ C12_ZeroRejected(HookArgs(TRUE), calculation_errors)
    /\ (pc \in {"hook_scored", "hook_rendered"} /\ bilirubin_value = 0) =>
         ~C_Has(calculation_errors, BilirubinMsg)

C12_Witness ==
    /\ pc = "hook_rendered"
    /\ results # None /\ Get(results)[1] = None
    /\ bilirubin_value = 0
    /\ calculation_success /\ meld_score # None
    /\ Get(detail_markdown).table[1] = <<"Not found", "">>

\* the eight terms of the formula on the clamped values of p
C_Polynomial(p) ==
    MeldPolynomial(WorkingBilirubin(p), WorkingSodium(p), WorkingInr(p),
                   WorkingAlbumin(p), WorkingCreatinine(p))

\* day `today` is the n-th birthday of someone born on d
C13_Birthday(today, d, n) ==
    today[2] = d[2] /\ today[3] = d[3] /\ today[1] - d[1] = n

\* C13: the age is today.year - dob.year, less 1 exactly when
\* (today.month, today.day) < (dob.month, dob.day); so a patient is scored
\* on the day of the 12th birthday and refused the day before, and gets the
\* adult formula from the day of the 18th birthday, the pediatric one the
\* day before.
C13_AgeAndBirthdays ==
    [][(pc = "constructed" /\ pc' = "calculated" /\ nulled = {}) =>
        LET p == Get(params)
            d == p.dob
            before == now[2] < d[2] \/ (now[2] = d[2] /\ now[3] < d[3])
            r == Get(response')
        IN  /\ age' = Some(now[1] - d[1] - (IF before THEN 1 ELSE 0))
            /\ C13_Birthday(now, d, 12) => r.success
            /\ C13_Birthday(NextDay(now), d, 12) =>
                 (~r.success /\ r.errors = <<AgeMsg>>)
            /\ C13_Birthday(now, d, 18) =>
                 Get(meld_score_raw') = C_Polynomial(p) + 6 * ScoreScale
                    + (IF p.sex \in {"female", "Female", "FEMALE"}
                       THEN 133 * 100000 ELSE 0)
            /\ C13_Birthday(NextDay(now), d, 18) =>
                 Get(meld_score_raw') = C_Polynomial(p) + 733 * 100000]_vars

C13_Witness ==
    /\ ValidatedCallDone
    /\ Get(params).dob = <<2012, 6, 15>> /\ now = <<2024, 6, 15>>
    /\ Get(age) = 12 /\ Get(response).success

C_Females == {"female", "Female", "FEMALE"}
C_Males == {"male", "MALE"}

\* C14: the formula is chosen by the age band alone: for 12 <= age < 18 the
\* result does not depend on sex and the constant is 7.33; for age >= 18
\* the constant is 6 and the score before rounding is exactly 1.33 higher
\* for "female" in any letter case than for "male", so the female value is
\* never below the male one.
C14_FormulaByAgeBand ==
    C_Scored =>
        LET p == Get(params)
            a == Get(age)
            raw == Get(meld_score_raw)
        IN  /\ (12 <= a /\ a < 18) =>
                 /\ raw = C_Polynomial(p) + 733 * 100000
                 /\ \A s \in C_Females \cup C_Males :
                      /\ C_RawAt([p EXCEPT !.sex = s]) = raw
                      /\ Some(ScoreForAge([p EXCEPT !.sex = s], a)) = Get(response).value
            /\ a >= 18 =>
                 /\ raw = C_Polynomial(p) + 6 * ScoreScale
                            + (IF p.sex \in C_Females THEN 133 * 100000 ELSE 0)
                 /\ \A f \in C_Females : \A m \in C_Males :
                      /\ C_RawAt([p EXCEPT !.sex = f])
                           = C_RawAt([p EXCEPT !.sex = m]) + 133 * 100000
                      /\ ScoreForAge([p EXCEPT !.sex = f], a)
                           >= ScoreForAge([p EXCEPT !.sex = m], a)

C14_Witness ==
    /\ C_Scored /\ Get(age) = 18 /\ Get(params).sex = "Female"
    /\ Get(Get(response).value) >
         ScoreForAge([Get(params) EXCEPT !.sex = "male"], 18)

C_Sodiums == {1000, 1240, 1250, 1350, 1370, 1380, 2000}

\* the working values as C15 states them
C15_AtLeast1(x) == IF x < 100 THEN 100 ELSE x
C15_Sodium(x) == IF x < 1250 THEN 1250 ELSE IF x > 1370 THEN 1370 ELSE x
C15_Albumin(x) == IF x < 15 THEN 15 ELSE IF x > 35 THEN 35 ELSE x
C15_Creatinine(x, dialysis) ==
    IF C15_AtLeast1(x) > 300 \/ dialysis THEN 300 ELSE C15_AtLeast1(x)

C15_SameWorkingValues(p, q) ==
    /\ C15_AtLeast1(p.bilirubin) = C15_AtLeast1(q.bilirubin)
    /\ C15_AtLeast1(p.inr) = C15_AtLeast1(q.inr)
    /\ C15_Sodium(p.sodium) = C15_Sodium(q.sodium)
    /\ C15_Albumin(p.albumin) = C15_Albumin(q.albumin)
    /\ C15_Creatinine(p.creatinine, p.had_dialysis)
         = C15_Creatinine(q.creatinine, q.had_dialysis)

C15_SameResult(q) ==
    /\ C_RawAt(q) = Get(meld_score_raw)
    /\ Some(ScoreForAge(q, Get(age))) = Get(response).value

\* C15: the result depends on the labs only through their clamped working
\* values: two validated inputs of the same age and sex give the same
\* result whenever max(bilirubin,1), max(inr,1), clamp(sodium,125,137),
\* clamp(albumin,1.5,3.5) and the working creatinine agree, the working
\* creatinine being 3.0 if max(creatinine,1) > 3.0 or had_dialysis, and
\* max(creatinine,1) otherwise.
C15_OnlyWorkingValuesMatter ==
    C_Scored =>
        LET p == Get(params)
        IN  /\ \A b \in C_Bilirubins : \A c \in C_Creatinines : \A h \in BOOLEAN :
                 LET q == [p EXCEPT !.bilirubin = b, !.creatinine = c,
                                    !.had_dialysis = h]
                 IN  C15_SameWorkingValues(p, q) => C15_SameResult(q)
            /\ \A n \in C_Sodiums : \A i \in C_Inrs : \A a \in C_Albumins :
                 LET q == [p EXCEPT !.sodium = n, !.inr = i, !.albumin = a]
                 IN  C15_SameWorkingValues(p, q) => C15_SameResult(q)

C15_Witness ==
    /\ C_Scored
    /\ Get(params).creatinine = 150 /\ Get(params).had_dialysis
    /\ Get(params).sodium = 1380 /\ Get(params).albumin = 14
    /\ Get(params).bilirubin = 0 /\ Get(params).inr = 50
    /\ C15_SameResult([Get(params) EXCEPT !.creatinine = 4000,
                          !.had_dialysis = FALSE, !.bilirubin = 100])

\* what C16 expects of a lab: the fetched pair if its own fetch succeeded,
\* the default pair otherwise
C16_Lab(r, value, date) ==
    IF r # None THEN value = Get(r)[1] /\ date = Get(r)[2]
    ELSE value = 0 /\ date = ""

C16_Patient(r, s, d) ==
    IF r # None THEN s = Get(r)[1] /\ d = Get(r)[2]
    ELSE s = "" /\ d = <<>>

\* C16 for fetch_meld_params alone
C16_FetchMeldParamsOwnFetch ==
    pc = "params_fetched" =>
        LET g == Get(results)
            m == Get(meld_params)
        IN  /\ C16_Lab(g[1], m.bilirubin_value, m.bilirubin_date)
            /\ C16_Lab(g[2], m.sodium_value, m.sodium_date)
            /\ C16_Lab(g[3], m.inr_value, m.inr_date)
            /\ C16_Lab(g[4], m.albumin_value, m.albumin_date)
            /\ C16_Lab(g[5], m.creatinine_value, m.creatinine_date)
            /\ C16_Patient(g[6], m.sex, m.dob)

\* C16: after the six concurrent fetches complete in any combination of
\* success and failure, every output field is decided by its own fetch: it
\* is the fetched value if and only if its own fetch succeeded and the
\* default otherwise; sex and dob come from the patient fetch whenever it
\* succeeds, whatever the creatinine fetch did. For the handler of main.py
\* and for fetch_meld_params.
C16_EachFieldByOwnFetch ==
    /\ C16_FetchMeldParamsOwnFetch
    /\ (pc \in {"hook_fetched", "hook_second", "hook_scored", "hook_rendered"}
         /\ results # None) =>
         LET g == Get(results)
         IN  /\ C16_Lab(g[1], bilirubin_value, bilirubin_date)
             /\ C16_Lab(g[2], sodium_value, sodium_date)
             /\ C16_Lab(g[3], inr_value, inr_date)
             /\ C16_Lab(g[4], albumin_value, albumin_date)
             /\ C16_Lab(g[5], creatinine_value, creatinine_date)
             /\ C16_Patient(g[6], sex, dob)
====
